---- MODULE Spec2Model ----
(***************************************************************************)
(* Model of the content metadata client of vividas-go:                     *)
(*   metadata/content.go   RemoteContent.GetConfig / GetEncryptionConfig   *)
(*   metadata/metadata.go  NewContentManager                               *)
(*                                                                         *)
(* Go records live on a heap and are passed by pointer.  cfgHeap and       *)
(* encHeap are the ContentConfig and ContentEncryptionConfig records the   *)
(* caller has allocated; a pointer is an index into the heap.  The two     *)
(* cache maps hold pointers, exactly as map[string]*ContentConfig does.    *)
(* The structs are projected onto the fields ContentName, ContentType      *)
(* (and RawData); the remaining fields are decoded the same way.           *)
(***************************************************************************)
EXTENDS Integers, Sequences, FiniteSets, TLC

VARIABLES
    constructed,                   \* what NewContentManager returned: client or error
    CacheEnabled,                  \* rc.CacheEnabled
    ContentConfigCache,            \* rc.ContentConfigCache: key -> pointer
    ContentEncryptionConfigCache,  \* rc.ContentEncryptionConfigCache: key -> pointer
    cfgHeap,                       \* the caller's ContentConfig records
    encHeap,                       \* the caller's ContentEncryptionConfig records
    last,                          \* the call that has just returned: arguments, remote
                                   \* answer, result (NoCall once the caller moves on)
    fetchedConfig,                 \* keys whose GetConfig fetch ended 200 and decoded
    fetchedEncryption,             \* key -> body of its latest GetEncryptionConfig fetch that
                                   \* ended 200 and decoded
    fetchedPairs,                  \* the <<id, bitrate>> pairs of those fetches
    calls,                         \* number of calls made so far
    goroutine,                     \* concurrent GetConfig calls: position and arguments
    raced                          \* the runtime detected a concurrent map access

vars == <<constructed, CacheEnabled, ContentConfigCache, ContentEncryptionConfigCache,
          cfgHeap, encHeap, last, fetchedConfig, fetchedEncryption, fetchedPairs, calls,
          goroutine, raced>>

----------------------------------------------------------------------------
(* Bounds *)

MaxRecs == 2
MaxCalls == 2
MaxConfigCalls == 3

(* Status codes of net/http used by the client *)
StatusOK == 200
StatusInternalServerError == 500

(* Inputs *)
Ids == {"1", "12"}
EncRequests == {<<"1", "23">>, <<"12", "3">>, <<"1", "">>}

(* Response bodies the remote service may send *)
BodyFull == "{\"contentName\":\"a\",\"contentType\":\"vod\"}"
BodyPartial == "{\"contentName\":\"b\"}"
BodyTypeErr == "{\"contentName\":7,\"contentType\":\"vod\"}"
BodyNull == "null"
BodyEmpty == ""
BodyText == "Value is not a valid UUID V4 string"

OKBodies == {BodyFull, BodyPartial, BodyTypeErr, BodyNull, BodyEmpty}

----------------------------------------------------------------------------
(* Records *)

ZeroContentConfig == [ContentName |-> "", ContentType |-> ""]
ZeroContentEncryptionConfig == [ContentName |-> "", RawData |-> ""]

(* error values: nil, or an error carrying a message *)
NilError == [isNil |-> TRUE, msg |-> ""]

(* mutant of Errorf: an empty message gives no error *)
ErrorfEmptyIsNil(msg) == [isNil |-> msg = "", msg |-> msg]

(* fmt.Errorf / errors.New: an error value is non-nil whatever its message *)
Errorf(msg) == [isNil |-> FALSE, msg |-> msg]

(* What the HTTP round trip gives for one call.  kind "buildErr": http.NewRequest
   fails; "transportErr": Client.Do fails; "response": a response arrived with
   this status and body, readOk telling whether the body can be read in full. *)
RemoteAnswers ==
    {[kind |-> "buildErr", status |-> 0, body |-> "", readOk |-> FALSE],
     [kind |-> "transportErr", status |-> 0, body |-> "", readOk |-> FALSE]}
    \cup {[kind |-> "response", status |-> StatusOK, body |-> b, readOk |-> TRUE] : b \in OKBodies}
    \cup {[kind |-> "response", status |-> 400, body |-> BodyText, readOk |-> TRUE],
          [kind |-> "response", status |-> 404, body |-> BodyEmpty, readOk |-> TRUE]}
    \cup {[kind |-> "response", status |-> s, body |-> BodyFull, readOk |-> FALSE] :
             s \in {200, 404}}

----------------------------------------------------------------------------
(* encoding/json on the bodies above.  syntaxOk: the text is one JSON value;
   isNull: it is the literal null; typeErr: a member has a value of the wrong
   JSON type (it is skipped, the other members are stored, an error is
   returned); fields: the members that are stored. *)
Parse(body) ==
    CASE body = BodyFull ->
           [syntaxOk |-> TRUE, isNull |-> FALSE, typeErr |-> FALSE,
            fields |-> [ContentName |-> "a", ContentType |-> "vod"]]
      [] body = BodyPartial ->
           [syntaxOk |-> TRUE, isNull |-> FALSE, typeErr |-> FALSE,
            fields |-> [ContentName |-> "b"]]
      [] body = BodyTypeErr ->
           [syntaxOk |-> TRUE, isNull |-> FALSE, typeErr |-> TRUE,
            fields |-> [ContentType |-> "vod"]]
      [] body = BodyNull ->
           [syntaxOk |-> TRUE, isNull |-> TRUE, typeErr |-> FALSE,
            fields |-> [f \in {} |-> ""]]
      [] OTHER ->
           [syntaxOk |-> FALSE, isNull |-> FALSE, typeErr |-> FALSE,
            fields |-> [f \in {} |-> ""]]

(* The member of the body stored into field f, or the field's old value when
   the body has no such member: decoding writes only the members present. *)
Stored(fields, f, old) == IF f \in DOMAIN fields THEN fields[f] ELSE old

(* mutant of DecodeContentConfig: the contentName member is not stored *)
DecodeContentConfigNoName(rec, body) ==
    [ContentName |-> rec.ContentName,
     ContentType |-> Stored(Parse(body).fields, "ContentType", rec.ContentType)]

(* json.NewDecoder(resp.Body).Decode(v), v a *ContentConfig *)
DecodeContentConfig(rec, body) ==
    [ContentName |-> Stored(Parse(body).fields, "ContentName", rec.ContentName),
     ContentType |-> Stored(Parse(body).fields, "ContentType", rec.ContentType)]

(* json.Unmarshal(body, &v) for a non-nil v and a body other than null:
   RawData is tagged json:"-" and is never written by the decoder *)
DecodeContentEncryptionConfig(rec, body) ==
    [ContentName |-> Stored(Parse(body).fields, "ContentName", rec.ContentName),
     RawData |-> rec.RawData]

(* v.RawData = string(body) *)
SetRawData(rec, body) == [rec EXCEPT !.RawData = body]

----------------------------------------------------------------------------
(* The cache maps *)

EmptyCache == [k \in {} |-> 0]

(* mutant of UseCache: the flag is ignored and the cache is always used *)
UseCacheAlways == TRUE

(* the guard  if rc.CacheEnabled  of both the lookup and the store *)
UseCache == CacheEnabled

(* mutant of CacheGet: any entry of the map counts as a hit *)
CacheGetAnyKey(cache, cacheKey) == UseCache /\ DOMAIN cache # {}

(* mutant of CacheGet: the lookup result is not used, every call fetches *)
CacheGetNever(cache, cacheKey) == FALSE

(* if rc.CacheEnabled { val, ok := cache[cacheKey]; if ok { ... } } *)
CacheGet(cache, cacheKey) == UseCache /\ cacheKey \in DOMAIN cache

(* mutant of CacheSet: the store replaces the map by one holding the new key *)
CacheSetReplace(cache, cacheKey, v) ==
    IF CacheEnabled THEN [k \in {cacheKey} |-> v] ELSE cache

(* mutant of CacheSet: the store is not guarded by the flag *)
CacheSetUnguarded(cache, cacheKey, v) ==
    [k \in DOMAIN cache \cup {cacheKey} |-> IF k = cacheKey THEN v ELSE cache[k]]

(* if rc.CacheEnabled { cache[cacheKey] = v } *)
CacheSet(cache, cacheKey, v) ==
    IF UseCache
    THEN [k \in DOMAIN cache \cup {cacheKey} |-> IF k = cacheKey THEN v ELSE cache[k]]
    ELSE cache

----------------------------------------------------------------------------
(* Return values *)

(* return http.StatusOK, nil   (cache hit) *)
CachedReturn == [status |-> StatusOK, err |-> NilError]

(* mutant of LocalError: a local failure is reported as a bad request *)
LocalErrorBadRequest(e) == [status |-> 400, err |-> Errorf(e)]

(* return http.StatusInternalServerError, err *)
LocalError(e) == [status |-> StatusInternalServerError, err |-> Errorf(e)]

(* mutant of RemoteError: every remote rejection is reported as 400 *)
RemoteErrorBadRequest(resp) == [status |-> 400, err |-> Errorf(resp.body)]

(* mutant of RemoteError: the remote status is replaced by 500 *)
RemoteErrorAsInternal(resp) ==
    [status |-> StatusInternalServerError, err |-> Errorf(resp.body)]

(* return resp.StatusCode, fmt.Errorf("%s", string(body)) *)
RemoteError(resp) == [status |-> resp.status, err |-> Errorf(resp.body)]

(* return resp.StatusCode, nil *)
FetchedReturn(resp) == [status |-> resp.status, err |-> NilError]

(* a nil pointer dereference: the call panics and returns nothing *)
Panicked == [status |-> 0, err |-> NilError]

(* mutant of Outcome: a transport error is retried once before giving up *)
OutcomeRetried(path, requests, ret, heap, cache) ==
    [path |-> path, requests |-> IF path = "transportErr" THEN 2 ELSE requests,
     returned |-> (path # "panic"),
     status |-> ret.status, err |-> ret.err, heap |-> heap, cache |-> cache]

(* The outcome of one call: the path taken, the number of HTTP requests sent,
   the values returned, and the heap and cache the call leaves. *)
Outcome(path, requests, ret, heap, cache) ==
    [path |-> path, requests |-> requests, returned |-> (path # "panic"),
     status |-> ret.status, err |-> ret.err, heap |-> heap, cache |-> cache]

----------------------------------------------------------------------------
(* GetConfig after the cache lookup missed: build the request, send it, check
   the status, decode the body into the record v points to *)
GetConfigFetch(v, r) ==
    LET heap == cfgHeap
        cache == ContentConfigCache
        decoded == [heap EXCEPT ![v] = DecodeContentConfig(heap[v], r.body)]
    IN  IF r.kind = "buildErr"
        THEN Outcome("buildErr", 0, LocalError("net/http: invalid request"), heap, cache)
        ELSE IF r.kind = "transportErr"
        THEN Outcome("transportErr", 1, LocalError("connection refused"), heap, cache)
        ELSE IF r.status # StatusOK
        THEN IF ~r.readOk
             THEN Outcome("readErr", 1, LocalError("unexpected EOF"), heap, cache)
             ELSE Outcome("non200", 1, RemoteError(r), heap, cache)
        ELSE IF ~r.readOk
        THEN Outcome("readErr", 1, LocalError("unexpected EOF"), heap, cache)
        ELSE IF ~Parse(r.body).syntaxOk
        THEN Outcome("decodeErr", 1, LocalError("invalid JSON"), heap, cache)
        ELSE IF Parse(r.body).typeErr
        THEN Outcome("decodeErr", 1, LocalError("cannot unmarshal number"), decoded, cache)
        ELSE Outcome("ok", 1, FetchedReturn(r), decoded, cache)

(* func (rc *RemoteContent) GetConfig(id string, v *ContentConfig) (int, error)
   called with the pointer v, the HTTP round trip answering r *)
GetConfigOutcome(id, v, r) ==
    LET cacheKey == id
        cache == ContentConfigCache
        fetch == GetConfigFetch(v, r)
    IN  IF CacheGet(cache, cacheKey)
        THEN \* v = val rebinds the parameter only; nothing is written through it
             Outcome("hit", 0, CachedReturn, cfgHeap, cache)
        ELSE IF fetch.path = "ok"
        THEN [fetch EXCEPT !.cache = CacheSet(cache, cacheKey, v)]
        ELSE fetch

(* mutant of EncryptionCacheKey: id and bitrate are kept apart by a separator *)
EncryptionCacheKeySeparated(id, bitrate) == id \o "/" \o bitrate

(* cacheKey := id + bitrate *)
EncryptionCacheKey(id, bitrate) == id \o bitrate

(* mutant of EncryptionConfigLookup: the lookup goes to the content-config map *)
EncryptionConfigLookupShared(cacheKey) == CacheGet(ContentConfigCache, cacheKey)

(* val, ok := rc.ContentEncryptionConfigCache[cacheKey] *)
EncryptionConfigLookup(cacheKey) == CacheGet(ContentEncryptionConfigCache, cacheKey)

(* func (rc *RemoteContent) GetEncryptionConfig(id, bitrate string,
       v *ContentEncryptionConfig) (int, error) *)
GetEncryptionConfigOutcome(id, bitrate, v, r) ==
    LET cacheKey == EncryptionCacheKey(id, bitrate)
        heap == encHeap
        cache == ContentEncryptionConfigCache
        decoded == [heap EXCEPT ![v] = DecodeContentEncryptionConfig(heap[v], r.body)]
        withRaw == [decoded EXCEPT ![v] = SetRawData(decoded[v], r.body)]
    IN  IF EncryptionConfigLookup(cacheKey)
        THEN Outcome("hit", 0, CachedReturn, heap, cache)
        ELSE IF r.kind = "buildErr"
        THEN Outcome("buildErr", 0, LocalError("net/http: invalid request"), heap, cache)
        ELSE IF r.kind = "transportErr"
        THEN Outcome("transportErr", 1, LocalError("connection refused"), heap, cache)
        ELSE IF ~r.readOk
        THEN Outcome("readErr", 1, LocalError("unexpected EOF"), heap, cache)
        ELSE IF r.status # StatusOK
        THEN Outcome("non200", 1, RemoteError(r), heap, cache)
        ELSE IF ~Parse(r.body).syntaxOk
        THEN Outcome("decodeErr", 1, LocalError("invalid JSON"), heap, cache)
        ELSE IF Parse(r.body).typeErr
        THEN Outcome("decodeErr", 1, LocalError("cannot unmarshal number"), decoded, cache)
        ELSE IF Parse(r.body).isNull
        THEN \* Unmarshal stores nil in v; v.RawData then dereferences nil
             Outcome("panic", 1, Panicked, heap, cache)
        ELSE Outcome("ok", 1, FetchedReturn(r), withRaw, CacheSet(cache, cacheKey, v))

(* the response is a 200 whose body was read in full and decodes without error *)
Decodable(r) ==
    /\ r.kind = "response" /\ r.status = StatusOK /\ r.readOk
    /\ Parse(r.body).syntaxOk /\ ~Parse(r.body).typeErr

CallRecord(op, id, bitrate, v, r, o) ==
    [op |-> op, id |-> id, bitrate |-> bitrate, v |-> v, remote |-> r,
     path |-> o.path, requests |-> o.requests, returned |-> o.returned,
     status |-> o.status, err |-> o.err]

NoCall ==
    [op |-> "none", id |-> "", bitrate |-> "", v |-> 0,
     remote |-> [kind |-> "buildErr", status |-> 0, body |-> "", readOk |-> FALSE],
     path |-> "none", requests |-> 0, returned |-> FALSE,
     status |-> 0, err |-> NilError]

----------------------------------------------------------------------------
(* Base URLs handed to NewContentManager *)
ServiceUrls == {"http://svc", ":svc"}

(* url.Parse(serviceUrl): a URL that starts with a colon has no scheme and is
   rejected ("missing protocol scheme") *)
UrlParses(serviceUrl) == serviceUrl # ":svc"

(* the goroutines that call the client concurrently, and one that is not in a call *)
Procs == {1, 2}
Idle == [pc |-> "idle", id |-> "", requests |-> 0, stores |-> 0]

(* mutant of NewContentManager: the error of url.Parse is dropped *)
NewContentManagerUnchecked(serviceUrl, cacheEnabled) ==
    [client |-> TRUE, err |-> NilError, serviceUrl |-> serviceUrl,
     CacheEnabled |-> cacheEnabled,
     ContentConfigCache |-> EmptyCache, ContentEncryptionConfigCache |-> EmptyCache]

(* func NewContentManager(serviceUrl string, client *http.Client,
       cacheEnabled bool), returning a *RemoteContent and an error;
   client FALSE stands for the nil *RemoteContent, which has no maps *)
NewContentManager(serviceUrl, cacheEnabled) ==
    IF ~UrlParses(serviceUrl)
    THEN [client |-> FALSE, err |-> Errorf("missing protocol scheme"),
          serviceUrl |-> serviceUrl, CacheEnabled |-> FALSE,
          ContentConfigCache |-> EmptyCache, ContentEncryptionConfigCache |-> EmptyCache]
    ELSE [client |-> TRUE, err |-> NilError, serviceUrl |-> serviceUrl,
          CacheEnabled |-> cacheEnabled,
          ContentConfigCache |-> EmptyCache, ContentEncryptionConfigCache |-> EmptyCache]

(* The state NewContentManager leaves.  The caller has declared MaxRecs
   zero-valued records of each type (var contentConfig ContentConfig). *)
Init ==
    /\ \E serviceUrl \in ServiceUrls, cacheEnabled \in BOOLEAN :
          LET rc == NewContentManager(serviceUrl, cacheEnabled) IN
          /\ constructed = [client |-> rc.client, err |-> rc.err, serviceUrl |-> serviceUrl]
          /\ CacheEnabled = rc.CacheEnabled
          /\ ContentConfigCache = rc.ContentConfigCache
          /\ ContentEncryptionConfigCache = rc.ContentEncryptionConfigCache
    /\ cfgHeap = [v \in 1..MaxRecs |-> ZeroContentConfig]
    /\ encHeap = [v \in 1..MaxRecs |-> ZeroContentEncryptionConfig]
    /\ last = NoCall
    /\ fetchedConfig = {}
    /\ fetchedEncryption = EmptyCache
    /\ fetchedPairs = {}
    /\ calls = 0
    /\ goroutine = [p \in Procs |-> Idle]
    /\ raced = FALSE

(* the caller overwrites a record it holds:  *v = ContentConfig{} *)
CallerWriteConfig ==
    /\ \E v \in 1..Len(cfgHeap) :
          /\ cfgHeap[v] # ZeroContentConfig
          /\ cfgHeap' = [cfgHeap EXCEPT ![v] = ZeroContentConfig]
    /\ last' = NoCall
    /\ UNCHANGED <<CacheEnabled, ContentConfigCache, ContentEncryptionConfigCache,
                   encHeap, fetchedConfig, fetchedEncryption, fetchedPairs, calls,
                   constructed, goroutine, raced>>

CallerWriteEncryptionConfig ==
    /\ \E v \in 1..Len(encHeap) :
          /\ encHeap[v] # ZeroContentEncryptionConfig
          /\ encHeap' = [encHeap EXCEPT ![v] = ZeroContentEncryptionConfig]
    /\ last' = NoCall
    /\ UNCHANGED <<CacheEnabled, ContentConfigCache, ContentEncryptionConfigCache,
                   cfgHeap, fetchedConfig, fetchedEncryption, fetchedPairs, calls,
                   constructed, goroutine, raced>>

GetConfigWithin(n) ==
    /\ constructed.client
    /\ calls < n
    /\ \E id \in Ids, v \in 1..Len(cfgHeap), r \in RemoteAnswers :
          LET o == GetConfigOutcome(id, v, r) IN
          /\ cfgHeap' = o.heap
          /\ ContentConfigCache' = o.cache
          /\ last' = CallRecord("GetConfig", id, "", v, r, o)
          /\ fetchedConfig' = IF o.requests = 1 /\ Decodable(r)
                              THEN fetchedConfig \cup {id} ELSE fetchedConfig
    /\ calls' = calls + 1
    /\ UNCHANGED <<CacheEnabled, ContentEncryptionConfigCache, encHeap, fetchedEncryption,
                   fetchedPairs, constructed, goroutine, raced>>

GetConfig == GetConfigWithin(MaxCalls)

GetEncryptionConfig ==
    /\ constructed.client
    /\ calls < MaxCalls
    /\ \E q \in EncRequests, v \in 1..Len(encHeap), r \in RemoteAnswers :
          LET o == GetEncryptionConfigOutcome(q[1], q[2], v, r) IN
          /\ encHeap' = o.heap
          /\ ContentEncryptionConfigCache' = o.cache
          /\ last' = CallRecord("GetEncryptionConfig", q[1], q[2], v, r, o)
          /\ fetchedEncryption' =
                IF o.requests = 1 /\ Decodable(r) /\ ~Parse(r.body).isNull
                THEN [k \in DOMAIN fetchedEncryption \cup {q[1] \o q[2]} |->
                         IF k = q[1] \o q[2] THEN r.body ELSE fetchedEncryption[k]]
                ELSE fetchedEncryption
          /\ fetchedPairs' =
                IF o.requests = 1 /\ Decodable(r) /\ ~Parse(r.body).isNull
                THEN fetchedPairs \cup {q} ELSE fetchedPairs
    /\ calls' = calls + 1
    /\ UNCHANGED <<CacheEnabled, ContentConfigCache, cfgHeap, fetchedConfig,
                   constructed, goroutine, raced>>

Next ==
    \/ CallerWriteConfig
    \/ CallerWriteEncryptionConfig
    \/ GetConfig
    \/ GetEncryptionConfig

Spec == Init /\ [][Next]_vars

(* a caller that only uses GetConfig, for longer call sequences *)
GetConfigOnly == GetConfigWithin(MaxConfigCalls)

NextConfig ==
    \/ CallerWriteConfig
    \/ GetConfigOnly

SpecConfig == Init /\ [][NextConfig]_vars

----------------------------------------------------------------------------
(* Two goroutines calling GetConfig on one client at the same time.  A call is
   split at its accesses to rc.ContentConfigCache: the lookup (a map read), the
   fetch, and the store (a map write).  Goroutine p passes its own record p. *)

At(p, pc) == goroutine[p].pc = pc

(* mutant of MapAccessRaces: a mutex orders every access to the map *)
MapAccessLocked(p) == FALSE

(* Nothing orders the map accesses of different goroutines: the access p is
   about to make overlaps a store another goroutine is about to make, or p's
   store overlaps another goroutine's lookup *)
MapAccessRaces(p) ==
    /\ UseCache
    /\ \E q \in Procs \ {p} :
          \/ At(q, "store")
          \/ At(p, "store") /\ At(q, "lookup")

(* an unordered concurrent map access is a data race: the runtime may stop the
   program ("fatal error: concurrent map read and map write") or not notice *)
RaceOutcome(p) ==
    IF MapAccessRaces(p) THEN raced' \in BOOLEAN ELSE raced' = FALSE

ConcurrentFrame ==
    UNCHANGED <<constructed, CacheEnabled, ContentEncryptionConfigCache, encHeap, last,
                fetchedConfig, fetchedEncryption, fetchedPairs, calls>>

(* a goroutine calls rc.GetConfig(id, &record) *)
Start(p) ==
    /\ constructed.client /\ ~raced
    /\ goroutine[p].pc \in {"idle", "done"}
    /\ \E id \in Ids :
          goroutine' = [goroutine EXCEPT ![p] =
                           [pc |-> "lookup", id |-> id, requests |-> 0, stores |-> 0]]
    /\ UNCHANGED <<ContentConfigCache, cfgHeap, raced>>
    /\ ConcurrentFrame

(* if rc.CacheEnabled { val, ok := rc.ContentConfigCache[cacheKey]; ... } *)
Lookup(p) ==
    /\ ~raced /\ At(p, "lookup")
    /\ goroutine' = [goroutine EXCEPT ![p].pc =
                        IF CacheGet(ContentConfigCache, goroutine[p].id)
                        THEN "done" ELSE "request"]
    /\ RaceOutcome(p)
    /\ UNCHANGED <<ContentConfigCache, cfgHeap>>
    /\ ConcurrentFrame

(* http.NewRequest ... json.NewDecoder(resp.Body).Decode(v) *)
Request(p) ==
    /\ ~raced /\ At(p, "request")
    /\ \E r \in RemoteAnswers :
          LET o == GetConfigFetch(p, r) IN
          /\ cfgHeap' = o.heap
          /\ goroutine' = [goroutine EXCEPT
                              ![p].pc = IF o.path = "ok" THEN "store" ELSE "done",
                              ![p].requests = o.requests]
    /\ UNCHANGED <<ContentConfigCache, raced>>
    /\ ConcurrentFrame

(* if rc.CacheEnabled { rc.ContentConfigCache[cacheKey] = v }; return *)
Store(p) ==
    /\ ~raced /\ At(p, "store")
    /\ ContentConfigCache' = CacheSet(ContentConfigCache, goroutine[p].id, p)
    /\ goroutine' = [goroutine EXCEPT ![p].pc = "done",
                                      ![p].stores = IF UseCache THEN 1 ELSE 0]
    /\ RaceOutcome(p)
    /\ UNCHANGED cfgHeap
    /\ ConcurrentFrame

NextConcurrent ==
    \E p \in Procs : Start(p) \/ Lookup(p) \/ Request(p) \/ Store(p)

SpecConcurrent == Init /\ [][NextConcurrent]_vars

----------------------------------------------------------------------------
(* Vocabulary of the properties *)

IsCall == last.op # "none"
IsGetConfig == last.op = "GetConfig"
IsGetEncryptionConfig == last.op = "GetEncryptionConfig"
LastKey == last.id \o last.bitrate
ACallReturns == calls' = calls + 1

(* the record the cache holds for the key of the call that has just returned *)
CachedConfig == cfgHeap[ContentConfigCache[LastKey]]
CachedEncryptionConfig == encHeap[ContentEncryptionConfigCache[LastKey]]

(* the call went to the network and got an answer with a status code *)
GotResponse == last.requests = 1 /\ last.remote.kind = "response"

----------------------------------------------------------------------------
(* C1: with caching enabled, a call served from the cache leaves the caller's
   output record holding the contents of the cache entry for its key, also
   when the output record is a fresh zero-valued one.  (Stated as claimed; the
   code only rebinds its parameter, v = val, and writes nothing.) *)
C1_HitFillsOutputRecord ==
    (IsCall /\ last.path = "hit") =>
        /\ IsGetConfig => cfgHeap[last.v] = CachedConfig
        /\ IsGetEncryptionConfig => encHeap[last.v] = CachedEncryptionConfig

(* C2: with caching enabled, a call whose key is in the cache issues no HTTP
   request and returns 200 with a nil error, whatever the remote would answer. *)
C2_HitIssuesNoRequest ==
    [][(ACallReturns /\ CacheEnabled
        /\ \/ last'.op = "GetConfig" /\ last'.id \in DOMAIN ContentConfigCache
           \/ /\ last'.op = "GetEncryptionConfig"
              /\ (last'.id \o last'.bitrate) \in DOMAIN ContentEncryptionConfigCache)
       => (last'.requests = 0 /\ last'.returned /\ last'.status = 200 /\ last'.err.isNil)]_vars

C2_Witness ==
    /\ IsGetConfig /\ last.path = "hit" /\ last.status = 200
    /\ last.remote.kind = "response" /\ last.remote.status = 404

(* C3 as claimed: with caching disabled every call issues a network request. *)
C3_DisabledAlwaysRequests ==
    (IsCall /\ ~CacheEnabled) => last.requests = 1

(* C3 amended: with caching disabled every call whose request can be built
   issues a network request, however often its key was fetched before. *)
C3_DisabledRequestsWhenBuilt ==
    (IsCall /\ ~CacheEnabled /\ last.remote.kind # "buildErr") => last.requests = 1

C3_Witness ==
    /\ ~CacheEnabled /\ IsGetConfig /\ calls = 2
    /\ last.path = "non200" /\ last.id \in fetchedConfig /\ last.requests = 1

(* C4 as claimed: every non-200 response is returned as the remote status with
   an error whose message is the response body. *)
C4_Non200Propagated ==
    (IsCall /\ GotResponse /\ last.remote.status # 200) =>
        /\ last.status = last.remote.status
        /\ ~last.err.isNil /\ last.err.msg = last.remote.body

(* C4 amended: every non-200 response whose body is read without error is
   returned as the remote status with an error whose message is the body. *)
C4_Non200PropagatedWhenRead ==
    (IsCall /\ GotResponse /\ last.remote.status # 200 /\ last.remote.readOk) =>
        /\ last.status = last.remote.status
        /\ ~last.err.isNil /\ last.err.msg = last.remote.body

C4_Witness ==
    /\ IsGetEncryptionConfig /\ GotResponse /\ last.remote.status = 400
    /\ last.status = 400 /\ last.err.msg = BodyText

(* C5: a key is in a cache only if caching is enabled and an earlier call with
   that key got a 200 that decoded; a call that ends in a non-200, a build,
   transport, read or decode failure leaves both cache maps as they were. *)
C5_CacheOnlyAfterFetch ==
    [][/\ DOMAIN ContentConfigCache' \subseteq fetchedConfig'
       /\ DOMAIN ContentEncryptionConfigCache' \subseteq DOMAIN fetchedEncryption'
       /\ ~CacheEnabled' =>
             (ContentConfigCache' = EmptyCache /\ ContentEncryptionConfigCache' = EmptyCache)
       /\ (ACallReturns /\ ~Decodable(last'.remote)) =>
             /\ ContentConfigCache' = ContentConfigCache
             /\ ContentEncryptionConfigCache' = ContentEncryptionConfigCache]_vars

C5_Witness ==
    /\ CacheEnabled /\ DOMAIN ContentConfigCache # {}
    /\ IsGetConfig /\ last.path = "decodeErr" /\ last.id \notin DOMAIN ContentConfigCache

(* C6: every failure the client detects itself (request build, transport,
   body read, JSON decode of a 200) is returned as 500 with a non-nil error. *)
C6_LocalFailureIs500 ==
    (IsCall /\ last.path \in {"buildErr", "transportErr", "readErr", "decodeErr"}) =>
        (last.returned /\ last.status = 500 /\ ~last.err.isNil)

C6_Witness ==
    /\ IsGetEncryptionConfig /\ last.path = "decodeErr"
    /\ last.remote.status = 200 /\ last.remote.body = BodyEmpty /\ last.status = 500

(* C7: a GetConfig call that fetches a 200 with a well-formed body returns
   200 and nil, and the output record holds every value decoded from the body. *)
C7_GetConfigDecodes ==
    (IsGetConfig /\ last.requests = 1 /\ Decodable(last.remote)) =>
        /\ last.returned /\ last.status = 200 /\ last.err.isNil
        /\ \A f \in DOMAIN Parse(last.remote.body).fields :
              cfgHeap[last.v][f] = Parse(last.remote.body).fields[f]

C7_Witness ==
    /\ IsGetConfig /\ last.requests = 1 /\ last.remote.body = BodyPartial
    /\ last.status = 200 /\ cfgHeap[last.v].ContentName = "b"

(* C8: every GetEncryptionConfig call that returns 200 leaves the output
   record's RawData equal to the body of the 200 response the record was
   decoded from.  (Stated as claimed; fails on a cache hit, see C1.) *)
C8_RawDataIsBody ==
    (IsGetEncryptionConfig /\ last.returned /\ last.status = 200) =>
        encHeap[last.v].RawData =
            IF last.requests = 1 THEN last.remote.body ELSE fetchedEncryption[LastKey]

(* C9: cache entries are write-once per key and never removed: a key that is
   in a cache stays in it, bound to the same entry. *)
C9_WriteOnce ==
    [][/\ \A k \in DOMAIN ContentConfigCache :
             k \in DOMAIN ContentConfigCache' /\ ContentConfigCache'[k] = ContentConfigCache[k]
       /\ \A k \in DOMAIN ContentEncryptionConfigCache :
             /\ k \in DOMAIN ContentEncryptionConfigCache'
             /\ ContentEncryptionConfigCache'[k] = ContentEncryptionConfigCache[k]]_vars

C9_Witness ==
    /\ Cardinality(DOMAIN ContentConfigCache) = 2
    /\ IsGetConfig /\ last.path = "ok"

(* C10: the contents of a cache entry never change once stored, also when the
   caller later writes to the record it passed or passes it to another call.
   (Stated as claimed; the cache stores the caller's pointer.) *)
C10_CachedContentsFrozen ==
    [][/\ \A k \in DOMAIN ContentConfigCache :
             k \in DOMAIN ContentConfigCache' =>
                 cfgHeap'[ContentConfigCache'[k]] = cfgHeap[ContentConfigCache[k]]
       /\ \A k \in DOMAIN ContentEncryptionConfigCache :
             k \in DOMAIN ContentEncryptionConfigCache' =>
                 encHeap'[ContentEncryptionConfigCache'[k]] =
                     encHeap[ContentEncryptionConfigCache[k]]]_vars

(* C11: the encryption-config cache key is the plain concatenation id+bitrate:
   with caching enabled, a call whose id+bitrate equals the id+bitrate of an
   earlier fetched pair is a cache hit, issues no request and returns 200,
   also when the pair itself differs, as ("12","3") after ("1","23"). *)
C11_ConcatenatedKeyCollides ==
    [][(ACallReturns /\ CacheEnabled /\ last'.op = "GetEncryptionConfig"
        /\ \E p \in fetchedPairs : p[1] \o p[2] = last'.id \o last'.bitrate)
       => (last'.requests = 0 /\ last'.returned /\ last'.status = 200 /\ last'.err.isNil)]_vars

C11_Witness ==
    /\ CacheEnabled /\ IsGetEncryptionConfig
    /\ last.id = "12" /\ last.bitrate = "3"
    /\ fetchedPairs = {<<"1", "23">>}
    /\ last.requests = 0 /\ last.status = 200

(* the call that has just returned was answered from the cache *)
ServedFromCache == IsCall /\ last.requests = 0 /\ last.returned /\ last.status = 200

(* C12 as claimed: on a cache miss with a request that can be built, the
   client issues the request and returns the remote status unchanged. *)
C12_RemoteStatusUnchanged ==
    (IsCall /\ ~ServedFromCache /\ last.remote.kind = "response") =>
        (last.requests = 1 /\ last.returned /\ last.status = last.remote.status)

(* C12 amended: on a cache miss with a request that can be built, whatever the
   id and bitrate, the client issues the request; a non-200 response whose
   body is read is returned with the remote status unchanged; the only status
   the client chooses itself is 500, for a transport, read or decode failure. *)
C12_NoLocalValidation ==
    (IsCall /\ ~ServedFromCache /\ last.remote.kind # "buildErr") =>
        /\ last.requests = 1
        /\ (last.remote.kind = "response" /\ last.remote.readOk /\ last.remote.status # 200)
              => (last.returned /\ last.status = last.remote.status)
        /\ last.returned => last.status \in {last.remote.status, 500}
        /\ (last.returned /\ last.status = 500) => ~Decodable(last.remote)

C12_Witness ==
    /\ IsGetEncryptionConfig /\ last.bitrate = "" /\ last.requests = 1
    /\ last.remote.status = 400 /\ last.status = 400 /\ ~last.err.isNil

(* C13: no call retries: every call issues at most one HTTP request whatever
   its outcome, and a call that does not end in 200 leaves the client (both
   cache maps and the caching flag) as it was, so a later call behaves as a
   first call would. *)
C13_NoRetry ==
    [][ACallReturns =>
          /\ last'.requests <= 1
          /\ ~(last'.returned /\ last'.status = 200) =>
                /\ ContentConfigCache' = ContentConfigCache
                /\ ContentEncryptionConfigCache' = ContentEncryptionConfigCache
                /\ CacheEnabled' = CacheEnabled]_vars

C13_Witness ==
    /\ CacheEnabled /\ calls = 2 /\ IsGetConfig
    /\ last.path = "transportErr" /\ last.requests = 1 /\ last.status = 500
    /\ ContentConfigCache = EmptyCache /\ fetchedConfig = {}

(* C14: construction fails with an error and creates no client if the base
   URL cannot be parsed; otherwise it returns a client whose two cache maps
   are empty, so the first call on a new client is never a cache hit. *)
C14_Construction ==
    /\ ~UrlParses(constructed.serviceUrl) =>
          (~constructed.client /\ ~constructed.err.isNil /\ calls = 0)
    /\ UrlParses(constructed.serviceUrl) =>
          /\ constructed.client /\ constructed.err.isNil
          /\ calls = 0 =>
                (ContentConfigCache = EmptyCache /\ ContentEncryptionConfigCache = EmptyCache)
          /\ (calls = 1 /\ IsCall) => ~ServedFromCache

C14_Witness ==
    /\ constructed.serviceUrl = ":svc" /\ ~constructed.client /\ ~constructed.err.isNil
    /\ ContentConfigCache = EmptyCache /\ calls = 0

(* C15: for every 200 response body GetEncryptionConfig returns (200, nil) or
   (500, error); no body, the literal null included, makes the call abort
   without returning.  (Stated as claimed; on null, Unmarshal sets v to nil
   and v.RawData panics.) *)
C15_EveryBodyReturns ==
    (IsGetEncryptionConfig /\ GotResponse /\ last.remote.status = 200 /\ last.remote.readOk) =>
        /\ last.returned
        /\ \/ last.status = 200 /\ last.err.isNil
           \/ last.status = 500 /\ ~last.err.isNil

(* C16: the cache map is accessed without synchronization.  Whenever a
   goroutine is about to store into the map while another is about to read or
   write it, both accesses can go ahead and the overlap is a data race; and
   two goroutines that both missed the same key have both issued a request
   and both go on to assign the key. *)
C16_UnsynchronizedCache ==
    \A p \in Procs : \A q \in Procs \ {p} :
        /\ (~raced /\ CacheEnabled /\ At(p, "store") /\ goroutine[q].pc \in {"lookup", "store"})
              => /\ ENABLED (Store(p) /\ raced')
                 /\ ENABLED (Store(p) /\ ~raced')
                 /\ At(q, "lookup") => ENABLED Lookup(q)
        /\ (~raced /\ CacheEnabled /\ At(p, "store") /\ At(q, "store")
                /\ goroutine[p].id = goroutine[q].id)
              => /\ goroutine[p].requests = 1 /\ goroutine[q].requests = 1
                 /\ ENABLED Store(q)

C16_Witness ==
    /\ CacheEnabled /\ ~raced
    /\ At(1, "store") /\ At(2, "store") /\ goroutine[1].id = goroutine[2].id
    /\ goroutine[1].requests = 1 /\ goroutine[2].requests = 1
    /\ goroutine[1].id \notin DOMAIN ContentConfigCache

(* C17 as claimed (last clause): with caching enabled, a GetConfig call for an
   id never fetched before always goes to the network. *)
C17_UnfetchedAlwaysRequests ==
    [][(ACallReturns /\ CacheEnabled /\ last'.op = "GetConfig"
        /\ last'.id \notin fetchedConfig)
       => last'.requests = 1]_vars

(* C17 amended: with caching enabled, a GetConfig call for id X is served from
   the cache iff an earlier GetConfig call for X returned 200 from the
   network; a call leaves the entries of the other ids alone, a failed call
   leaves all entries alone, and a call for an id never fetched goes to the
   network whenever its request can be built. *)
C17_HitIffFetched ==
    [][(ACallReturns /\ CacheEnabled /\ last'.op = "GetConfig") =>
          /\ (last'.requests = 0 /\ last'.returned /\ last'.status = 200)
                <=> last'.id \in fetchedConfig
          /\ (last'.id \notin fetchedConfig /\ last'.remote.kind # "buildErr")
                => last'.requests = 1
          /\ \A x \in Ids \ {last'.id} :
                x \in DOMAIN ContentConfigCache' <=> x \in DOMAIN ContentConfigCache
          /\ ~Decodable(last'.remote) =>
                DOMAIN ContentConfigCache' = DOMAIN ContentConfigCache]_vars

C17_Witness ==
    /\ CacheEnabled /\ calls = 3 /\ IsGetConfig /\ ServedFromCache
    /\ last.id = "1" /\ fetchedConfig = {"1", "12"}
    /\ DOMAIN ContentConfigCache = {"1", "12"}

(* C18: for every call that returns, the returned error is nil if and only if
   the returned status is 200; in particular a non-200 response with an empty
   body gives a non-nil error. *)
C18_NilErrorIff200 ==
    (IsCall /\ last.returned) => (last.err.isNil <=> last.status = StatusOK)

C18_Witness ==
    /\ IsCall /\ last.returned /\ GotResponse /\ last.remote.readOk
    /\ last.remote.status = 404 /\ last.remote.body = BodyEmpty
    /\ last.status = 404 /\ ~last.err.isNil /\ last.err.msg = ""

(* C19: the two caches are independent.  A GetConfig call leaves the
   encryption-config map and its records as they were and is a hit only for an
   id held by the content-config map; a GetEncryptionConfig call leaves the
   content-config map and its records as they were and is a hit only for a key
   held by the encryption-config map. *)
C19_CachesIndependent ==
    [][ACallReturns =>
          /\ last'.op = "GetConfig" =>
                /\ ContentEncryptionConfigCache' = ContentEncryptionConfigCache
                /\ encHeap' = encHeap
                /\ last'.path = "hit" => last'.id \in DOMAIN ContentConfigCache
          /\ last'.op = "GetEncryptionConfig" =>
                /\ ContentConfigCache' = ContentConfigCache
                /\ cfgHeap' = cfgHeap
                /\ last'.path = "hit" =>
                      EncryptionCacheKey(last'.id, last'.bitrate)
                          \in DOMAIN ContentEncryptionConfigCache]_vars

C19_Witness ==
    /\ CacheEnabled /\ "1" \in DOMAIN ContentConfigCache
    /\ IsGetEncryptionConfig /\ last.id = "1" /\ last.bitrate = ""
    /\ last.path = "ok" /\ last.requests = 1
    /\ DOMAIN ContentEncryptionConfigCache = {"1"}

====
